---- MODULE Spec2Model ----
(***************************************************************************)
(* Rinna report generation: TemplateManager, create_renderer,              *)
(* ReportService and the HTTP endpoints of rinna.api.main, as a state      *)
(* machine.  One action per public operation; the outcome of the last      *)
(* call (returned value or raised exception) is observable in `call`,      *)
(* `outcome`, `render_calls` and `http`.                                   *)
(***************************************************************************)
EXTENDS Integers, Sequences, FiniteSets, TLC

VARIABLES
    installed,       \* third-party libraries importable in this process
    default_engine,  \* ReportService.default_engine
    dir_exists,      \* whether ReportService.output_dir exists on disk
    templates,       \* TemplateManager.templates (insertion-ordered dict)
    latest,          \* history: the template most recently added under each identifier
    renderers,       \* ReportService._renderers (engine -> renderer instance)
    constructed,     \* classes of the renderer instances built by the service, in order
    files,           \* content of the output directory (filename -> file)
    report_seq,      \* number of report ids (uuid4) handed out
    call,            \* the last operation called and its arguments
    outcome,         \* what the last operation returned or raised
    render_calls,    \* the render() invocations made by the last operation
    http,            \* status of the HTTP response of the last endpoint call (0: none)
    saved,           \* history: the file each successfully saved report was written to
    \* rinna_config.RinnaConfig and its surroundings
    environ,         \* os.environ: the RINNA_ variables that are set
    config_file,     \* what yaml.safe_load makes of python/config.yaml
    config,          \* RinnaConfig._config, as a map from key path to value
    loaded,          \* RinnaConfig._loaded
    got,             \* the last RinnaConfig.get call and what it returned
    loads,           \* history: the number of times _load_config has run
    \* scripts/api/sync-swagger.py
    yaml_file,       \* the Swagger YAML file
    json_file,       \* the Swagger JSON file
    run,             \* the last run of the tool or call of one of its functions
    \* bin/rinna_logger.py and bin/log_python.py
    loggers,         \* the RinnaLogger objects of the process, in order of creation
    levels,          \* the level of each logging.Logger, by name
    records,         \* the records written to rinna-python.log
    log_run,         \* the last logger operation or script run and its arguments
    \* scripts/c4_diagrams.py
    diagrams_available,  \* whether the diagrams library was imported
    generator,       \* the C4DiagramGenerator constructed last
    diagram_files,   \* the diagram files written
    diagram_run,     \* the last call on the generator and what it returned
    uploads          \* the files upload_to_lucidchart was called with by the last call

reportVars == <<installed, default_engine, dir_exists, templates, latest, renderers,
                constructed, files, report_seq, call, outcome, render_calls, http, saved>>

configVars == <<environ, config_file, config, loaded, got, loads>>

swaggerVars == <<yaml_file, json_file, run>>

loggerVars == <<loggers, levels, records, log_run>>

diagramVars == <<diagrams_available, generator, diagram_files, diagram_run, uploads>>

toolVars == <<configVars, swaggerVars, loggerVars, diagramVars>>

vars == <<reportVars, toolVars>>

----------------------------------------------------------------------------
(* Bounds of the model *)

MaxTimestamp == 0
MaxReports == 2

(* Input sets *)

Engines == {"weasyprint", "reportlab", "xhtml2pdf", "docmosis"}
Formats == {"pdf", "html", "docx", "png"}
Libs == {"jinja2", "weasyprint", "reportlab", "xhtml2pdf"}
ServiceModule == "rinna.reports.service"

TemplateIds == {"t1", "t2"}
Titles == {"A", "B"}
\* datetime.now(), to the second
Timestamps == 0..MaxTimestamp
\* the environments considered: everything installed, Jinja2 missing, the
\* ReportLab library missing, and the service package itself not importable
InstalledChoices == {Libs \cup {ServiceModule}, (Libs \ {"jinja2"}) \cup {ServiceModule},
                     (Libs \ {"reportlab"}) \cup {ServiceModule}, Libs}
Template(template_id, title, engine) ==
    [template_id |-> template_id, title |-> title, engine |-> engine]
\* the templates add_template is called with; "bogus" is an engine tag of a
\* catalog entry that names no rendering engine
AddableTemplates ==
    {Template("t1", "A", "weasyprint"), Template("t1", "B", "reportlab"),
     Template("t2", "A", "reportlab"), Template("t2", "B", "bogus")}
DefaultEngines == {"weasyprint", "reportlab"}
RequestEngines == {"None", "weasyprint", "xhtml2pdf", "bogus"}
GetRendererEngines == {"weasyprint", "reportlab", "xhtml2pdf", "bogus"}
RequestFormats == {"pdf", "bogus"}
DataValues == {"d1", "d2"}
Contents == {<<1>>, <<1, 2>>}

None == "None"
NoRenderer == [id |-> 0, cls |-> None]
NoPath == <<None, 0, "">>
\* a file name chosen by the caller; the second component is the report
\* identifier the name embeds (0: none)
CustomName == <<"custom", 0, "pdf">>
NamedAfter(report_id) == <<"custom", report_id, "pdf">>
RequestFilenames == {NoPath}
\* the endpoints are also asked for a file named after the first report
ApiFilenames == {NoPath, NamedAfter(1)}
NoResult == [keys |-> {}, report_id |-> 0, template_id |-> None, format |-> None,
             engine |-> None, file_path |-> NoPath, size_bytes |-> 0, status |-> None]
NoTemplate == [template_id |-> None, title |-> None, engine |-> None]

----------------------------------------------------------------------------
(* dict[key] = value *)

Put(dict, key, value) ==
    [k \in DOMAIN dict \cup {key} |-> IF k = key THEN value ELSE dict[k]]

----------------------------------------------------------------------------
(* TemplateManager *)

\* index of template_id in the ordered dict, 0 when absent
IndexOf(tpls, template_id) ==
    IF \E i \in 1..Len(tpls) : tpls[i].template_id = template_id
    THEN CHOOSE i \in 1..Len(tpls) : tpls[i].template_id = template_id
    ELSE 0

get_template(tpls, template_id) ==
    IF IndexOf(tpls, template_id) = 0 THEN NoTemplate
    ELSE tpls[IndexOf(tpls, template_id)]

list_templates(tpls) == tpls

\* mutant of add_template: the catalog kept as a list that is only appended to
add_template_appending(tpls, template) == Append(tpls, template)

\* dict assignment: an existing key keeps its position, a new key is appended
add_template(tpls, template) ==
    IF IndexOf(tpls, template.template_id) = 0 THEN Append(tpls, template)
    ELSE [tpls EXCEPT ![IndexOf(tpls, template.template_id)] = template]

\* one element of the "templates" list of catalog.json: a JSON object with
\* the members given (None: member missing), or a value that is no object
CatalogEntry(kind, id, title, engine, path) ==
    [kind |-> kind, id |-> id, title |-> title, engine |-> engine, path |-> path]

WellFormed1 == CatalogEntry("object", "t1", "A", "reportlab", "string")
\* title and engine left to their defaults
WellFormed2 == CatalogEntry("object", "t2", None, None, "string")
WithoutId == CatalogEntry("object", None, "A", "reportlab", "string")
NotAnObject == CatalogEntry("string", None, None, None, None)
NumericPath == CatalogEntry("object", "t1", "B", "reportlab", "number")

CatalogFile(kind, entries) == [kind |-> kind, entries |-> entries]

\* catalog.json: missing, not JSON, unreadable, not text in the locale's
\* encoding, a JSON array, or a JSON object with a "templates" list
CatalogFiles ==
    {CatalogFile("absent", <<>>), CatalogFile("unparsable", <<>>),
     CatalogFile("unreadable", <<>>), CatalogFile("undecodable", <<>>),
     CatalogFile("array", <<>>),
     CatalogFile("object", <<>>),
     CatalogFile("object", <<WellFormed1>>),
     CatalogFile("object", <<WithoutId, WellFormed1>>),
     CatalogFile("object", <<WellFormed1, WithoutId, WellFormed2>>),
     CatalogFile("object", <<NotAnObject, WellFormed1>>),
     CatalogFile("object", <<WellFormed2, NumericPath>>)}

Loaded(tpls) == [kind |-> "return", exc |-> None, templates |-> tpls]
LoadRaised(e, tpls) == [kind |-> "raise", exc |-> e, templates |-> tpls]

\* the loop of _load_catalog (renderer.py:113-129)
RECURSIVE LoadEntries(_, _)
LoadEntries(tpls, entries) ==
    IF entries = <<>> THEN Loaded(tpls)
    ELSE LET template_data == Head(entries) IN
         \* template_data.get on a value that is no dict
         IF template_data.kind # "object" THEN LoadRaised("AttributeError", tpls)
         ELSE IF template_data.id = None THEN LoadEntries(tpls, Tail(entries))
         \* self.templates_dir / path with a path that is no string
         ELSE IF template_data.path # "string" THEN LoadRaised("TypeError", tpls)
         ELSE LoadEntries(
                  add_template(tpls,
                      Template(template_data.id,
                               IF template_data.title = None THEN template_data.id
                               ELSE template_data.title,
                               IF template_data.engine = None THEN "weasyprint"
                               ELSE template_data.engine)),
                  Tail(entries))

\* TemplateManager._load_catalog: json.JSONDecodeError and IOError are
\* caught and logged, every other exception leaves the constructor
load_catalog(file) ==
    IF file.kind = "absent" THEN Loaded(<<>>)
    ELSE IF file.kind \in {"unparsable", "unreadable"} THEN Loaded(<<>>)
    ELSE IF file.kind = "undecodable" THEN LoadRaised("UnicodeDecodeError", <<>>)
    \* catalog.get on a list
    ELSE IF file.kind = "array" THEN LoadRaised("AttributeError", <<>>)
    ELSE LoadEntries(<<>>, file.entries)

\* the map from identifier to template of a catalog
RECURSIVE LatestOf(_)
LatestOf(tpls) ==
    IF tpls = <<>> THEN <<>>
    ELSE Put(LatestOf(SubSeq(tpls, 1, Len(tpls) - 1)), tpls[Len(tpls)].template_id,
             tpls[Len(tpls)])

----------------------------------------------------------------------------
(* Renderer factory *)

Returned(v) == [kind |-> "return", exc |-> None, value |-> v]
Raised(e) == [kind |-> "raise", exc |-> e, value |-> None]
NoOutcome == [kind |-> None, exc |-> None, value |-> None]

\* the import guards at the bottom of renderer.py: a flag is true when the
\* renderer MODULE imports; weasyprint_renderer and xhtml2pdf_renderer import
\* jinja2 at module level, reportlab_renderer and docmosis_renderer import
\* only the standard library (their engines are imported lazily in render)
WEASYPRINT_AVAILABLE == "jinja2" \in installed
REPORTLAB_AVAILABLE == TRUE
XHTML2PDF_AVAILABLE == "jinja2" \in installed
DOCMOSIS_AVAILABLE == TRUE

\* the value is the class of the renderer built
create_renderer(engine) ==
    IF engine \notin Engines THEN Raised("ValueError")
    ELSE IF engine = "weasyprint" THEN
        IF ~WEASYPRINT_AVAILABLE THEN Raised("ValueError") ELSE Returned("weasyprint")
    ELSE IF engine = "reportlab" THEN
        IF ~REPORTLAB_AVAILABLE THEN Raised("ValueError") ELSE Returned("reportlab")
    ELSE IF engine = "xhtml2pdf" THEN
        IF ~XHTML2PDF_AVAILABLE THEN Raised("ValueError") ELSE Returned("xhtml2pdf")
    ELSE IF engine = "docmosis" THEN
        IF ~DOCMOSIS_AVAILABLE THEN Raised("ValueError") ELSE Returned("docmosis")
    ELSE Raised("ValueError")

\* the outcomes render() of a renderer of class cls can have: the engine's
\* library is imported lazily and its absence is a ValueError; otherwise the
\* result depends on the template file and the data (bytes, or an exception)
RenderCanSucceed(cls, output_format) ==
    CASE cls = "weasyprint" ->
            "weasyprint" \in installed /\ output_format \in {"pdf", "html", "png"}
      [] cls = "reportlab" ->
            "reportlab" \in installed /\ output_format \in {"pdf", "png"}
      [] cls = "xhtml2pdf" ->
            \/ output_format = "html"
            \/ output_format = "pdf" /\ "xhtml2pdf" \in installed
      [] cls = "docmosis" -> TRUE
      [] OTHER -> FALSE

RenderOutcomes(cls, output_format) ==
    {[kind |-> "raise", exc |-> "ValueError", value |-> <<>>]}
    \cup (IF cls \in {"weasyprint", "reportlab"} /\ RenderCanSucceed(cls, output_format)
          THEN {[kind |-> "raise", exc |-> "OSError", value |-> <<>>]} ELSE {})
    \cup (IF RenderCanSucceed(cls, output_format)
          THEN {[kind |-> "return", exc |-> None, value |-> c] : c \in Contents}
          ELSE {})

\* no render call was made
NotRendered == [kind |-> None, exc |-> None, value |-> <<>>]

----------------------------------------------------------------------------
(* ReportService.get_renderer, as a function of the cache *)

NewInstance(built, cls) == [id |-> Len(built) + 1, cls |-> cls]

RaisedNoRenderer == [kind |-> "raise", exc |-> "ValueError", value |-> NoRenderer]

\* result: the outcome, the cache and the list of instances built afterwards
RendererResult(out, cache, built) == [out |-> out, renderers |-> cache, constructed |-> built]

\* mutant of Failed: the engine that failed is entered in the cache without
\* a renderer
FailedCachingNone(engine, cache, built) ==
    RendererResult(RaisedNoRenderer, Put(cache, engine, NoRenderer), built)

\* get_renderer raises: RenderingEngine(engine) (service.py:82), the bare
\* `raise` (service.py:101) or create_renderer of the default engine
\* (service.py:93); no assignment to self._renderers has been made
Failed(engine, cache, built) == RendererResult(RaisedNoRenderer, cache, built)

\* mutant of CanFallBack: the fallback to the default engine is never taken
CanFallBackNever(engine) == FALSE

\* `if engine != self.default_engine` (service.py:90)
CanFallBack(engine) == engine # default_engine

get_renderer(engine, cache, built) ==
    IF engine \notin Engines THEN Failed(engine, cache, built)
    ELSE IF engine \in DOMAIN cache THEN RendererResult(Returned(cache[engine]), cache, built)
    ELSE IF create_renderer(engine).kind = "return" THEN
        LET inst == NewInstance(built, create_renderer(engine).value) IN
        RendererResult(Returned(inst), Put(cache, engine, inst), Append(built, inst.cls))
    ELSE IF CanFallBack(engine) THEN
        IF default_engine \notin DOMAIN cache THEN
            IF create_renderer(default_engine).kind = "return" THEN
                LET inst == NewInstance(built, create_renderer(default_engine).value) IN
                RendererResult(Returned(inst), Put(cache, engine, inst),
                               Append(built, inst.cls))
            ELSE Failed(engine, cache, built)
        ELSE RendererResult(Returned(cache[default_engine]),
                            Put(cache, engine, cache[default_engine]), built)
    ELSE Failed(engine, cache, built)

----------------------------------------------------------------------------
(* ReportService.generate_report, as a function of the state *)

\* mutant of TemplateFound: the template check is skipped
TemplateFoundAlways(template) == TRUE

\* `if not template` (service.py:153)
TemplateFound(template) == template # NoTemplate

\* mutant of ChosenEngine: a request without engine gets the service's default
ChosenEngineDefault(engine, template) ==
    IF engine = None THEN default_engine ELSE engine

\* `if engine is None: engine = template.engine` (service.py:161)
ChosenEngine(engine, template) ==
    IF engine = None THEN template.engine ELSE engine

\* mutant of CaughtByService: `except ValueError` in place of `except Exception`
CaughtOnlyValueError(exc) == exc = "ValueError"

\* `except Exception` (service.py:215): every exception class modelled derives
\* from Exception
CaughtByService(exc) == exc \in {"ValueError", "OSError", "ImportError", "HTTPException"}

\* mutant of SuccessResult: the "format" entry filled from the engine
SuccessResultFormatFromEngine(report_id, template_id, output_format, engine, file_path, content) ==
    [keys |-> {"report_id", "template_id", "format", "engine", "file_path", "size_bytes",
               "generation_time_seconds", "timestamp", "status"},
     report_id |-> report_id, template_id |-> template_id, format |-> engine,
     engine |-> engine, file_path |-> file_path, size_bytes |-> Len(content),
     status |-> "success"]

SuccessResult(report_id, template_id, output_format, engine, file_path, content) ==
    [keys |-> {"report_id", "template_id", "format", "engine", "file_path", "size_bytes",
               "generation_time_seconds", "timestamp", "status"},
     report_id |-> report_id, template_id |-> template_id, format |-> output_format,
     engine |-> engine, file_path |-> file_path, size_bytes |-> Len(content),
     status |-> "success"]

ErrorResult(report_id, template_id, output_format, engine) ==
    [keys |-> {"report_id", "template_id", "format", "engine", "error", "timestamp",
               "status"},
     report_id |-> report_id, template_id |-> template_id, format |-> output_format,
     engine |-> engine, file_path |-> NoPath, size_bytes |-> 0, status |-> "error"]

RaisedNoResult(e) == [kind |-> "raise", exc |-> e, value |-> NoResult]

\* mutant of WriteFile: the file is created and left empty
WriteFileEmpty(fs, file_path, content) == Put(fs, file_path, <<>>)

\* `with open(file_path, "wb") as f: f.write(content)` (service.py:197)
WriteFile(fs, file_path, content) == Put(fs, file_path, content)

\* `if not filename` (service.py:168): template id, timestamp to the second, format
Filename(filename, template_id, now, output_format) ==
    IF filename = NoPath THEN <<template_id, now, output_format>> ELSE filename

\* one invocation of renderer.render (service.py:180) and what it did
RenderCall(inst, template_id, data, output_format, ro) ==
    [renderer |-> inst, template_id |-> template_id, data |-> data,
     format |-> output_format, outcome |-> ro]

GenerateResult(out, gr, fs, seq, calls) ==
    [out |-> out, renderers |-> gr.renderers, constructed |-> gr.constructed,
     files |-> fs, report_seq |-> seq, render_calls |-> calls]

\* now: datetime.now(); ro: what the renderer's render() does if it is reached
generate_report(template_id, data, output_format, engine, filename, save, now, ro) ==
    LET template == get_template(templates, template_id)
        unchanged == RendererResult(NoOutcome, renderers, constructed)
    IN
    IF ~TemplateFound(template) THEN
        GenerateResult(RaisedNoResult("ValueError"), unchanged, files, report_seq, <<>>)
    ELSE IF output_format \notin Formats THEN
        GenerateResult(RaisedNoResult("ValueError"), unchanged, files, report_seq, <<>>)
    ELSE
        LET eng == ChosenEngine(engine, template)
            report_id == report_seq + 1
            fname == Filename(filename, template_id, now, output_format)
            gr == get_renderer(eng, renderers, constructed)
            calls == <<RenderCall(gr.out.value, template_id, data, output_format, ro)>>
        IN
        IF gr.out.kind = "raise" THEN
            GenerateResult(RaisedNoResult(gr.out.exc), gr, files, report_seq, <<>>)
        ELSE IF ro.kind = "raise" THEN
            IF CaughtByService(ro.exc) THEN
                GenerateResult(Returned(ErrorResult(report_id, template_id, output_format, eng)),
                               gr, files, report_id, calls)
            ELSE GenerateResult(RaisedNoResult(ro.exc), gr, files, report_id, calls)
        ELSE IF save THEN
            IF ~dir_exists THEN
                \* open(file_path, "wb") raises FileNotFoundError
                IF CaughtByService("OSError") THEN
                    GenerateResult(
                        Returned(ErrorResult(report_id, template_id, output_format, eng)),
                        gr, files, report_id, calls)
                ELSE GenerateResult(RaisedNoResult("OSError"), gr, files, report_id, calls)
            ELSE
                GenerateResult(
                    Returned(SuccessResult(report_id, template_id, output_format, eng,
                                           fname, ro.value)),
                    gr, WriteFile(files, fname, ro.value), report_id, calls)
        ELSE
            GenerateResult(
                Returned(SuccessResult(report_id, template_id, output_format, eng,
                                       NoPath, ro.value)),
                gr, files, report_id, calls)

\* the outcomes render() can have in the call generate_report would make
RenderChoices(template_id, output_format, engine) ==
    LET template == get_template(templates, template_id)
        eng == ChosenEngine(engine, template)
        gr == get_renderer(eng, renderers, constructed)
    IN IF ~TemplateFound(template) \/ output_format \notin Formats \/ gr.out.kind = "raise"
       THEN {NotRendered}
       ELSE RenderOutcomes(gr.out.value.cls, output_format)

----------------------------------------------------------------------------
(* ReportService.generate_metrics_report: the data handed to generate_report *)

\* one item of the metrics dict: its key and the kind of value it holds
Entry(name, kind) == [name |-> name, kind |-> kind]

\* metrics_data, a dict in insertion order
MetricsInputs ==
    {<<>>,
     <<Entry("summary", "dict"), Entry("team", "dict")>>,
     <<Entry("workflow_metrics", "list"), Entry("summary", "dict")>>,
     <<Entry("team", "scalar"), Entry("summary", "list")>>}
ReportTitles == {"Weekly"}

\* `"summary" in metrics_data`
HasSummary(metrics_data) ==
    \E i \in 1..Len(metrics_data) : metrics_data[i].name = "summary"

\* metrics_data["summary"].items() (service.py:271) needs a dict
SummaryHasItems(metrics_data) ==
    \A i \in 1..Len(metrics_data) :
        metrics_data[i].name = "summary" => metrics_data[i].kind = "dict"

\* section_name.replace("_", " ").title()
SectionTitle(section_name) ==
    CASE section_name = "team" -> "Team"
      [] section_name = "workflow_metrics" -> "Workflow Metrics"
      [] section_name = "summary" -> "Summary"
      [] OTHER -> section_name

RECURSIVE DetailSections(_)
DetailSections(metrics_data) ==
    IF metrics_data = <<>> THEN <<>>
    ELSE IF Head(metrics_data).name = "summary" THEN DetailSections(Tail(metrics_data))
    ELSE <<[title |-> SectionTitle(Head(metrics_data).name)]>>
         \o DetailSections(Tail(metrics_data))

\* mutant of MetricsSections: the summary section is left out
MetricsSectionsDetailOnly(metrics_data) == DetailSections(metrics_data)

MetricsSections(metrics_data) ==
    (IF HasSummary(metrics_data) THEN <<[title |-> "Summary"]>> ELSE <<>>)
    \o DetailSections(metrics_data)

MetricsData(title, metrics_data) ==
    [title |-> title, sections |-> MetricsSections(metrics_data)]

\* the summary section is built before generate_report is called: a summary
\* that is no dict raises AttributeError out of generate_metrics_report
generate_metrics_report(title, metrics_data, template_id, output_format, engine, filename, now, ro) ==
    IF ~SummaryHasItems(metrics_data) THEN
        GenerateResult(RaisedNoResult("AttributeError"),
                       RendererResult(NoOutcome, renderers, constructed), files, report_seq,
                       <<>>)
    ELSE generate_report(template_id, MetricsData(title, metrics_data), output_format, engine,
                         filename, TRUE, now, ro)

\* the outcomes render() can have in the call generate_metrics_report would make
MetricsRenderChoices(metrics_data, template_id, output_format, engine) ==
    IF ~SummaryHasItems(metrics_data) THEN {NotRendered}
    ELSE RenderChoices(template_id, output_format, engine)

----------------------------------------------------------------------------
(* HTTP endpoints of rinna.api.main, which serve default_service *)

\* default_service = ReportService(): WeasyPrint default, no output_dir given
IsDefaultService == default_engine = "weasyprint"

ServiceImportable == ServiceModule \in installed

NoResponse == [status |-> 0, report_id |-> 0, filename |-> NoPath]

\* the exception the try block of the endpoint ends with, None when it returns
EndpointTryBody(out) ==
    IF out.kind = "raise" THEN out.exc
    ELSE IF out.value.status = "error" THEN "HTTPException"
    ELSE None

\* `except ImportError` -> 501, `except Exception` -> 500
EndpointResponse(out) ==
    IF EndpointTryBody(out) = None THEN
        [status |-> 200, report_id |-> out.value.report_id, filename |-> out.value.file_path]
    ELSE IF EndpointTryBody(out) = "ImportError" THEN
        [status |-> 501, report_id |-> 0, filename |-> NoPath]
    ELSE [status |-> 500, report_id |-> 0, filename |-> NoPath]

\* the report identifiers a download is requested for
ReportIds == 1..MaxReports

\* `report_id in f` (main.py:257): the generated file names are
\* {template_id}_{timestamp}.{format}; a report identifier (a uuid4) occurs
\* in a file name only when the caller chose a name that embeds it
NameContains(f, report_id) == f[1] = "custom" /\ f[2] = report_id

\* matching_files (main.py:257)
MatchingFiles(report_id) == {f \in DOMAIN files : NameContains(f, report_id)}

\* matching_files[0]: os.listdir returns the names in arbitrary order
DownloadChoices(report_id) ==
    IF MatchingFiles(report_id) = {} THEN {NoPath} ELSE MatchingFiles(report_id)

\* the response of download_report; f is matching_files[0] when there is one
download_report(report_id, f) ==
    IF ~ServiceImportable THEN [status |-> 501, report_id |-> 0, filename |-> NoPath]
    \* os.listdir of a missing directory raises FileNotFoundError
    ELSE IF ~dir_exists THEN [status |-> 500, report_id |-> 0, filename |-> NoPath]
    \* HTTPException(404) is raised inside the try block and caught by
    \* `except Exception` (main.py:274)
    ELSE IF MatchingFiles(report_id) = {} THEN
        [status |-> 500, report_id |-> 0, filename |-> NoPath]
    ELSE [status |-> 200, report_id |-> report_id, filename |-> f]

----------------------------------------------------------------------------
(* rinna_config.RinnaConfig.  A nested dict is a map from key paths to     *)
(* values: an inner dict is the value Dict at its path, a leaf the YAML     *)
(* token of its value.                                                      *)

Dict == "dict"
\* the scalar values considered, as YAML writes them: two strings, the empty
\* string, the boolean false and null
Truthy == {"Acme", "flat"}
Falsy == {"''", "false"}
Null == "null"

\* the paths below path
Descendants(obj, path) ==
    {q \in DOMAIN obj : Len(q) > Len(path) /\ SubSeq(q, 1, Len(path)) = path}

\* the paths above path
Prefixes(path) == {SubSeq(path, 1, n) : n \in 1..(Len(path) - 1)}

\* _get_value_at_path: None when a key on the way is missing or the value
\* there is no dict; YAML null is None
get_value_at_path(obj, path) ==
    IF path \in DOMAIN obj /\ obj[path] # Null THEN obj[path] ELSE None

\* _set_value_at_path: missing dicts on the way are created, the value at
\* the path is replaced (with everything below it)
set_value_at_path(obj, path, value) ==
    [q \in ((DOMAIN obj \ Descendants(obj, path)) \cup Prefixes(path) \cup {path}) |->
        IF q = path THEN value
        ELSE IF q \in DOMAIN obj THEN obj[q]
        ELSE Dict]

\* `not value` for the value at a path: None, "", False and the empty dict
IsFalsy(obj, path) ==
    \/ get_value_at_path(obj, path) = None
    \/ get_value_at_path(obj, path) \in Falsy
    \/ get_value_at_path(obj, path) = Dict /\ Descendants(obj, path) = {}

Item(path, value) == [path |-> path, value |-> value]

\* the defaults of _set_defaults, in the order _merge_defaults visits them
\* (project.name, project.environment and the Lucidchart API key)
DefaultItems ==
    <<Item(<<"project">>, Dict),
      Item(<<"project", "name">>, "Rinna"),
      Item(<<"project", "environment">>, "development"),
      Item(<<"python">>, Dict),
      Item(<<"python", "diagrams">>, Dict),
      Item(<<"python", "diagrams", "lucidchart">>, Dict),
      Item(<<"python", "diagrams", "lucidchart", "api_key">>, "''")>>

\* the value the coded defaults give a path, None when they give none
DefaultOf(path) ==
    IF \E i \in 1..Len(DefaultItems) : DefaultItems[i].path = path
    THEN DefaultItems[CHOOSE i \in 1..Len(DefaultItems) : DefaultItems[i].path = path].value
    ELSE None

RECURSIVE merge_defaults(_, _)
merge_defaults(obj, items) ==
    IF items = <<>> THEN obj
    ELSE LET path == Head(items).path
             value == Head(items).value
         IN IF value = Dict THEN
                merge_defaults(IF get_value_at_path(obj, path) # Dict
                               THEN set_value_at_path(obj, path, Dict) ELSE obj,
                               Tail(items))
            ELSE
                merge_defaults(IF IsFalsy(obj, path)
                               THEN set_value_at_path(obj, path, value) ELSE obj,
                               Tail(items))

\* the YAML documents considered for python/config.yaml
EmptyDoc == [q \in {} |-> Dict]
Doc(leaf, value) == set_value_at_path(EmptyDoc, leaf, value)
\* a document that is a scalar, not a mapping
ScalarDoc == [q \in {<<>>} |-> "flat"]
Absent == "absent"
Unparsable == "unparsable"
ConfigFiles ==
    {[kind |-> Absent, doc |-> EmptyDoc],
     [kind |-> Unparsable, doc |-> EmptyDoc],
     [kind |-> "yaml", doc |-> EmptyDoc],
     [kind |-> "yaml", doc |-> ScalarDoc],
     [kind |-> "yaml", doc |-> Doc(<<"project", "name">>, "Acme")],
     [kind |-> "yaml", doc |-> Doc(<<"project", "name">>, "''")],
     [kind |-> "yaml", doc |-> Doc(<<"project", "environment">>, "false")],
     [kind |-> "yaml", doc |-> Doc(<<"project">>, "flat")],
     [kind |-> "yaml", doc |-> Doc(<<"custom", "key">>, "Acme")],
     [kind |-> "yaml", doc |-> Doc(<<"custom", "key">>, Null)]}

\* _load_config up to _set_defaults: yaml.safe_load(f) or {}; a file that
\* is missing or fails to load leaves {}
load_config(file) ==
    IF file.kind # "yaml" THEN EmptyDoc ELSE file.doc

\* _set_defaults writes into self._config with obj[key] = value, a
\* TypeError when the document loaded is not a mapping
ReloadRaises(file) == <<>> \in DOMAIN load_config(file)

\* RinnaConfig._config after reload()
reload(file) ==
    IF ReloadRaises(file) THEN load_config(file)
    ELSE merge_defaults(load_config(file), DefaultItems)

\* str.upper: of a key, one segment at a time, and of a level name
Upper(segment) ==
    CASE segment = "project" -> "PROJECT"
      [] segment = "name" -> "NAME"
      [] segment = "environment" -> "ENVIRONMENT"
      [] segment = "python" -> "PYTHON"
      [] segment = "diagrams" -> "DIAGRAMS"
      [] segment = "lucidchart" -> "LUCIDCHART"
      [] segment = "api_key" -> "API_KEY"
      [] segment = "custom" -> "CUSTOM"
      [] segment = "key" -> "KEY"
      [] segment = "debug" -> "DEBUG"
      [] segment = "Warn" -> "WARN"
      [] segment = "verbose" -> "VERBOSE"
      [] OTHER -> segment

ENV_PREFIX == "RINNA"

\* _env_var_name: the prefix and the upper-cased segments, joined by "_"
env_var_name(key) == <<ENV_PREFIX>> \o [i \in 1..Len(key) |-> Upper(key[i])]

\* the keys get is asked for, split at the dots
ConfigKeys ==
    {<<"project", "name">>, <<"project", "environment">>,
     <<"python", "diagrams", "lucidchart", "api_key">>, <<"custom", "key">>}

CallerDefaults == {None, "fallback"}

\* the environments considered
NoEnviron == [v \in {} |-> ""]
Environs ==
    {NoEnviron,
     [v \in {<<"RINNA", "PROJECT", "NAME">>} |-> "FromEnv"],
     [v \in {<<"RINNA", "CUSTOM", "KEY">>} |-> "''"]}

\* RinnaConfig.get once the configuration is loaded
get(cfg, key, default) ==
    IF env_var_name(key) \in DOMAIN environ THEN environ[env_var_name(key)]
    ELSE IF get_value_at_path(cfg, key) # None THEN get_value_at_path(cfg, key)
    ELSE default

MaxLoads == 3

Got(getter, key, default, kind, value) ==
    [getter |-> getter, key |-> key, default |-> default, kind |-> kind, value |-> value]
NoGet == Got(None, <<>>, None, None, None)

\* the typed getters
Getters == {"get_int", "get_bool", "get_float", "get_list", "get_path"}

\* what a typed getter makes of the value get(key) returned.  The values
\* are None, strings (none the text of a number or of a true word, none with
\* a "~" or a "$"), the boolean false and dicts.
\*   get_int, get_float: None gives the default 0; int("Acme") and int({})
\*       raise ValueError / TypeError, which gives the default; int(False) is 0
\*   get_bool: None gives the default False; a str is true when its lower
\*       case is one of true, yes, 1, y, on; a dict is true when not empty
\*   get_list: None gives []; any other value the one-element list
\*   get_path: None gives ""; expanduser(expandvars(str)) is the string;
\*       a value that is no string raises TypeError
typed(getter, value) ==
    CASE getter \in {"get_int", "get_float"} -> Returned(0)
      [] getter = "get_bool" -> Returned(value = Dict)
      [] getter = "get_list" -> Returned(IF value = None THEN <<>> ELSE <<value>>)
      [] getter = "get_path" ->
            IF value = None THEN Returned("''")
            ELSE IF value \in {Dict, "false"} THEN Raised("TypeError")
            ELSE Returned(value)

ConfigIdle ==
    /\ environ = NoEnviron
    /\ config_file = [kind |-> Absent, doc |-> EmptyDoc]
    /\ config = EmptyDoc
    /\ loaded = FALSE
    /\ got = NoGet
    /\ loads = 0

\* config = RinnaConfig() in a process with some environment and some file
ConfigInit ==
    /\ environ \in Environs
    /\ config_file \in ConfigFiles
    /\ config = EmptyDoc
    /\ loaded = FALSE
    /\ got = NoGet
    /\ loads = 0

\* RinnaConfig.get: _ensure_loaded, then the lookup
ConfigGet ==
    /\ loaded \/ loads < MaxLoads
    /\ \E key \in ConfigKeys, default \in CallerDefaults :
        LET cfg == IF loaded THEN config ELSE reload(config_file) IN
        /\ config' = cfg
        /\ loads' = IF loaded THEN loads ELSE loads + 1
        /\ IF ~loaded /\ ReloadRaises(config_file)
           THEN /\ loaded' = FALSE
                /\ got' = Got("get", key, default, "raise", "TypeError")
           ELSE /\ loaded' = TRUE
                /\ got' = Got("get", key, default, "return", get(cfg, key, default))
        /\ UNCHANGED <<environ, config_file, reportVars, swaggerVars, loggerVars, diagramVars>>

\* get_int, get_bool, get_float, get_list, get_path: self.get(key), then
\* the conversion of the value
ConfigGetTyped ==
    /\ loaded \/ loads < MaxLoads
    /\ \E getter \in Getters, key \in ConfigKeys :
        LET cfg == IF loaded THEN config ELSE reload(config_file) IN
        /\ config' = cfg
        /\ loads' = IF loaded THEN loads ELSE loads + 1
        /\ IF ~loaded /\ ReloadRaises(config_file)
           THEN /\ loaded' = FALSE
                /\ got' = Got(getter, key, None, "raise", "TypeError")
           ELSE /\ loaded' = TRUE
                /\ got' = Got(getter, key, None, typed(getter, get(cfg, key, None)).kind,
                              IF typed(getter, get(cfg, key, None)).kind = "raise"
                              THEN typed(getter, get(cfg, key, None)).exc
                              ELSE typed(getter, get(cfg, key, None)).value)
        /\ UNCHANGED <<environ, config_file, reportVars, swaggerVars, loggerVars, diagramVars>>

\* RinnaConfig.reload: _loaded is set once _load_config has returned; when
\* it raises, _loaded is what it was
ConfigReload ==
    /\ loads < MaxLoads
    /\ config' = reload(config_file)
    /\ loaded' = IF ReloadRaises(config_file) THEN loaded ELSE TRUE
    /\ loads' = loads + 1
    /\ got' = NoGet
    /\ UNCHANGED <<environ, config_file, reportVars, swaggerVars, loggerVars, diagramVars>>

\* python/config.yaml is edited, created or removed
SetConfigFile ==
    /\ \E file \in ConfigFiles : file # config_file /\ config_file' = file
    /\ got' = NoGet
    /\ UNCHANGED <<environ, config, loaded, loads, reportVars, swaggerVars, loggerVars,
                   diagramVars>>

\* the process environment changes (os.environ is read at every get)
SetEnviron ==
    /\ \E e \in Environs : environ' = e
    /\ got' = NoGet
    /\ UNCHANGED <<config_file, config, loaded, loads, reportVars, swaggerVars, loggerVars,
                   diagramVars>>

NextConfig ==
    \/ ConfigGet
    \/ ConfigReload
    \/ SetEnviron

NextConfigFiles ==
    \/ ConfigGet
    \/ ConfigGetTyped
    \/ ConfigReload
    \/ SetConfigFile

----------------------------------------------------------------------------
(* scripts/api/sync-swagger.py.  A document is a mapping, kept as the       *)
(* sequence of its members; keys and scalar values carry their type.  The   *)
(* members stand for the members of the mappings at any depth.              *)

Str(v) == [t |-> "str", v |-> v]
Number(v) == [t |-> "int", v |-> v]
Date(v) == [t |-> "date", v |-> v]
Mapping(v) == [t |-> "map", v |-> v]
Member(key, value) == [key |-> key, value |-> value]

\* swagger, info and paths
Basic ==
    <<Member(Str("swagger"), Str("2.0")), Member(Str("info"), Mapping("info")),
      Member(Str("paths"), Mapping("paths"))>>
\* a response code written as a plain YAML integer key
WithIntKey == Basic \o <<Member(Number("200"), Str("OK"))>>
\* a plain YAML date among the values
WithDate == Basic \o <<Member(Str("released"), Date("2025-01-01"))>>
WithoutPaths == SubSeq(Basic, 1, 2)

SwaggerFile(kind, doc) == [kind |-> kind, doc |-> doc]
NoFile == SwaggerFile("absent", <<>>)
Malformed == SwaggerFile("malformed", <<>>)
\* the YAML document "null" (an empty file) and the JSON text "null"
NullFile == SwaggerFile("null", <<>>)
\* what a json.dump that raised half-way leaves behind
Partial == SwaggerFile("partial", <<>>)

YamlFiles ==
    {NoFile, Malformed, NullFile, SwaggerFile("doc", Basic), SwaggerFile("doc", WithIntKey),
     SwaggerFile("doc", WithDate), SwaggerFile("doc", WithoutPaths)}
JsonFiles ==
    {NoFile, Malformed, SwaggerFile("doc", Basic), SwaggerFile("doc", WithoutPaths)}

\* the result of a load: the value, or the failure
Parsed(file) == [ok |-> file.kind \in {"null", "doc"}, null |-> file.kind = "null",
                 doc |-> file.doc]

\* yaml.safe_load of the file: open fails on a missing file, the parser on a
\* malformed one
yaml_safe_load(file) == Parsed(file)

\* dict[key] = value on a document
SetMember(doc, key, value) ==
    IF \E i \in 1..Len(doc) : doc[i].key = key
    THEN [i \in 1..Len(doc) |-> IF doc[i].key = key THEN Member(key, value) ELSE doc[i]]
    ELSE Append(doc, Member(key, value))

\* json.load of the file: a JSON object, with the last of repeated keys
RECURSIVE JsonObject(_)
JsonObject(members) ==
    IF members = <<>> THEN <<>>
    ELSE SetMember(JsonObject(SubSeq(members, 1, Len(members) - 1)),
                   members[Len(members)].key, members[Len(members)].value)

json_load(file) == [ok |-> file.kind \in {"null", "doc"}, null |-> file.kind = "null",
                    doc |-> JsonObject(file.doc)]

\* json.dump writes every key as a string
JsonKey(key) == Str(key.v)

\* json.dump raises TypeError on a value JSON has no form for
JsonSerializable(doc) == \A i \in 1..Len(doc) : doc[i].value.t # "date"

\* the text json.dump writes
json_dump(doc) == [i \in 1..Len(doc) |-> Member(JsonKey(doc[i].key), doc[i].value)]

\* mutant of yaml_dump: every string written as a plain scalar, so that
\* "2.0" reads back as a number
yaml_dump_plain(doc) ==
    [i \in 1..Len(doc) |->
        Member(doc[i].key,
               IF doc[i].value = Str("2.0") THEN Number("2.0") ELSE doc[i].value)]

\* yaml.dump of a value json.load returned: strings are quoted where a plain
\* scalar would read back as another type, so every key and value keeps its type
yaml_dump(doc) == [i \in 1..Len(doc) |-> Member(doc[i].key, doc[i].value)]

Converted(file, exit) == [file |-> file, exit |-> exit]

\* convert_yaml_to_json: the JSON file afterwards and the exit status (0: the
\* function returned)
convert_yaml_to_json(yaml, json) ==
    IF ~yaml_safe_load(yaml).ok THEN Converted(json, 1)
    ELSE IF yaml_safe_load(yaml).null THEN Converted(NullFile, 0)
    ELSE IF ~JsonSerializable(yaml_safe_load(yaml).doc) THEN Converted(Partial, 1)
    ELSE Converted(SwaggerFile("doc", json_dump(yaml_safe_load(yaml).doc)), 0)

\* convert_json_to_yaml: the YAML file afterwards and the exit status
convert_json_to_yaml(json, yaml) ==
    IF ~json_load(json).ok THEN Converted(yaml, 1)
    ELSE IF json_load(json).null THEN Converted(NullFile, 0)
    ELSE Converted(SwaggerFile("doc", yaml_dump(json_load(json).doc)), 0)

required_fields == <<"swagger", "info", "paths">>

\* validate_swagger_yaml: `field not in yaml_content` raises TypeError on
\* None, which is caught like every other exception
validate_swagger_yaml(yaml) ==
    /\ yaml_safe_load(yaml).ok
    /\ ~yaml_safe_load(yaml).null
    /\ \A f \in 1..Len(required_fields) :
          \E i \in 1..Len(yaml_safe_load(yaml).doc) :
              yaml_safe_load(yaml).doc[i].key = Str(required_fields[f])

Directions == {"yaml-to-json", "json-to-yaml", "both"}

Ran(yaml, json, exit) == [yaml_file |-> yaml, json_file |-> json, exit |-> exit]

\* the second half of main: the JSON-to-YAML step, whose re-validation result
\* is not used
JsonToYamlStep(direction, yaml, json) ==
    IF direction \in {"json-to-yaml", "both"}
    THEN Ran(convert_json_to_yaml(json, yaml).file, json, convert_json_to_yaml(json, yaml).exit)
    ELSE Ran(yaml, json, 0)

\* main: the files afterwards and the exit status of the process
main(validate, direction, yaml, json) ==
    IF validate THEN Ran(yaml, json, IF validate_swagger_yaml(yaml) THEN 0 ELSE 1)
    ELSE IF direction \in {"yaml-to-json", "both"} THEN
        IF ~validate_swagger_yaml(yaml) THEN Ran(yaml, json, 1)
        ELSE IF convert_yaml_to_json(yaml, json).exit # 0
             THEN Ran(yaml, convert_yaml_to_json(yaml, json).file, 1)
        ELSE JsonToYamlStep(direction, yaml, convert_yaml_to_json(yaml, json).file)
    ELSE JsonToYamlStep(direction, yaml, json)

Run(op, validate, direction, exit) ==
    [op |-> op, validate |-> validate, direction |-> direction, exit |-> exit]
NoRun == Run(None, FALSE, None, 0)

SwaggerIdle ==
    /\ yaml_file = NoFile
    /\ json_file = NoFile
    /\ run = NoRun

SwaggerInit ==
    /\ yaml_file \in YamlFiles
    /\ json_file \in JsonFiles
    /\ run = NoRun

\* python sync-swagger.py [--validate] [--direction D]
SwaggerMain ==
    \E validate \in BOOLEAN, direction \in Directions :
        LET r == main(validate, direction, yaml_file, json_file) IN
        /\ yaml_file' = r.yaml_file
        /\ json_file' = r.json_file
        /\ run' = Run("main", validate, direction, r.exit)
        /\ UNCHANGED <<reportVars, configVars, loggerVars, diagramVars>>

\* convert_yaml_to_json, called on its own
ConvertYamlToJson ==
    /\ json_file' = convert_yaml_to_json(yaml_file, json_file).file
    /\ run' = Run("convert_yaml_to_json", FALSE, None,
                  convert_yaml_to_json(yaml_file, json_file).exit)
    /\ UNCHANGED <<yaml_file, reportVars, configVars, loggerVars, diagramVars>>

\* convert_json_to_yaml, called on its own
ConvertJsonToYaml ==
    /\ yaml_file' = convert_json_to_yaml(json_file, yaml_file).file
    /\ run' = Run("convert_json_to_yaml", FALSE, None,
                  convert_json_to_yaml(json_file, yaml_file).exit)
    /\ UNCHANGED <<json_file, reportVars, configVars, loggerVars, diagramVars>>

NextSwagger ==
    \/ SwaggerMain
    \/ ConvertYamlToJson
    \/ ConvertJsonToYaml

----------------------------------------------------------------------------
(* bin/rinna_logger.py and bin/log_python.py *)

MaxLoggers == 3
MaxRecords == 2

TRACE == 5

\* the numeric value of a level of the logging module
LevelNo(level) ==
    CASE level = "TRACE" -> TRACE
      [] level = "DEBUG" -> 10
      [] level = "INFO" -> 20
      [] level = "WARNING" -> 30
      [] level = "ERROR" -> 40
      [] OTHER -> 50

LoggerNames == {"rinna", "org.rinna.Main"}
FieldKeys == {"request_id", "user_id"}
FieldValues == {"a", "b"}
NoFields == [k \in {} |-> ""]
FieldDicts ==
    {NoFields, [k \in {"request_id"} |-> "b"], [k \in FieldKeys |-> "a"]}
Messages == {"m1", "m2"}

\* a RinnaLogger: its name, its context fields and the logging.Logger it
\* writes through
RinnaLogger(name, fields, logger) == [name |-> name, fields |-> fields, logger |-> logger]

\* dict.update
Update(dict, given) ==
    [k \in DOMAIN dict \cup DOMAIN given |-> IF k \in DOMAIN given THEN given[k] ELSE dict[k]]

\* mutant of with_fields: the new logger shares the fields dict of the old one
with_fields_shared(lgs, self, given) ==
    Append([lgs EXCEPT ![self].fields = Update(lgs[self].fields, given)],
           RinnaLogger(lgs[self].name, Update(lgs[self].fields, given), lgs[self].logger))

\* RinnaLogger.with_fields: the loggers of the process afterwards, the new
\* one last
with_fields(lgs, self, given) ==
    Append(lgs, RinnaLogger(lgs[self].name, Update(lgs[self].fields, given),
                            lgs[self].logger))

\* RinnaLogger.with_field
with_field(lgs, self, key, value) ==
    with_fields(lgs, self, [k \in {key} |-> value])

\* RinnaLogger.__init__ sets the level of logging.getLogger(name)
SetLevel(lvls, name, level) == Put(lvls, name, level)

\* logging.Logger.log: the record is handled when its level reaches the
\* level of the logger
IsEnabledFor(lvls, logger, level) == LevelNo(level) >= LevelNo(lvls[logger])

Record(logger, level, note, message, fields) ==
    [logger |-> logger, level |-> level, note |-> note, message |-> message,
     fields |-> fields]

\* RinnaLogger._log: the log file afterwards
log(recs, lvls, lg, level, note, message) ==
    IF IsEnabledFor(lvls, lg.logger, level)
    THEN Append(recs, Record(lg.logger, level, note, message, lg.fields))
    ELSE recs

LogRun(op, self, given, level, message) ==
    [op |-> op, self |-> self, given |-> given, level |-> level, message |-> message]
NoLogRun == LogRun(None, 0, NoFields, None, None)

LoggerIdle ==
    /\ loggers = <<>>
    /\ levels = <<>>
    /\ records = <<>>
    /\ log_run = NoLogRun

\* the module as imported: logger = get_logger("rinna")
LoggerInit ==
    /\ loggers = <<RinnaLogger("rinna", NoFields, "rinna")>>
    /\ levels = SetLevel(<<>>, "rinna", "INFO")
    /\ records = <<>>
    /\ log_run = NoLogRun

\* RinnaLogger(name, level)
NewLogger ==
    /\ Len(loggers) < MaxLoggers
    /\ \E name \in LoggerNames, level \in {"INFO", "DEBUG"} :
            /\ loggers' = Append(loggers, RinnaLogger(name, NoFields, name))
            /\ levels' = SetLevel(levels, name, level)
            /\ log_run' = LogRun("RinnaLogger", 0, NoFields, level, None)
    /\ UNCHANGED <<records, reportVars, configVars, swaggerVars, diagramVars>>

\* logger.with_field(key, value); the constructor of the new logger sets the
\* level of the underlying logger to INFO
WithField ==
    /\ Len(loggers) < MaxLoggers
    /\ \E self \in 1..Len(loggers), key \in FieldKeys, value \in FieldValues :
            /\ loggers' = with_field(loggers, self, key, value)
            /\ levels' = SetLevel(levels, loggers[self].name, "INFO")
            /\ log_run' = LogRun("with_field", self, [k \in {key} |-> value], None, None)
    /\ UNCHANGED <<records, reportVars, configVars, swaggerVars, diagramVars>>

\* logger.with_fields(fields)
WithFields ==
    /\ Len(loggers) < MaxLoggers
    /\ \E self \in 1..Len(loggers), given \in FieldDicts :
            /\ loggers' = with_fields(loggers, self, given)
            /\ levels' = SetLevel(levels, loggers[self].name, "INFO")
            /\ log_run' = LogRun("with_fields", self, given, None, None)
    /\ UNCHANGED <<records, reportVars, configVars, swaggerVars, diagramVars>>

\* logger.trace / debug / info / warn / error (message)
Log ==
    /\ Len(records) < MaxRecords
    /\ \E self \in 1..Len(loggers), level \in {"TRACE", "DEBUG", "INFO", "WARNING", "ERROR"} :
            /\ records' = log(records, levels, loggers[self], level, None, "m1")
            /\ log_run' = LogRun("log", self, NoFields, level, "m1")
    /\ UNCHANGED <<loggers, levels, reportVars, configVars, swaggerVars, diagramVars>>

NextLogger ==
    \/ NewLogger
    \/ WithField
    \/ WithFields
    \/ Log

\* the values of --level
LevelArgs == {"TRACE", "debug", "INFO", "Warn", "WARNING", "ERROR", "FATAL", "verbose"}

\* the --field arguments as parse_field splits them at the first "="
FieldArg(key, value) == [key |-> key, value |-> value]
FieldArgs == {<<>>, <<FieldArg("request_id", "a")>>, <<FieldArg("user_id", "")>>}

\* `if key and value: fields[key] = value` over the --field arguments
RECURSIVE ParsedFields(_)
ParsedFields(args) ==
    IF args = <<>> THEN NoFields
    ELSE IF args[Len(args)].key # "" /\ args[Len(args)].value # ""
         THEN Put(ParsedFields(SubSeq(args, 1, Len(args) - 1)), args[Len(args)].key,
                  args[Len(args)].value)
         ELSE ParsedFields(SubSeq(args, 1, Len(args) - 1))

\* the level main logs at and whether it notes the level as unknown
Dispatch(level) ==
    IF level = "TRACE" THEN [level |-> "TRACE", note |-> None]
    ELSE IF level = "DEBUG" THEN [level |-> "DEBUG", note |-> None]
    ELSE IF level = "INFO" THEN [level |-> "INFO", note |-> None]
    ELSE IF level = "WARN" \/ level = "WARNING" THEN [level |-> "WARNING", note |-> None]
    ELSE IF level = "ERROR" THEN [level |-> "ERROR", note |-> None]
    ELSE [level |-> "INFO", note |-> "Unknown log level"]

\* main of log_python.py in a new process: configure_logging() and
\* get_logger(name) leave the logger at level INFO
log_python(recs, level, name, message, field_args) ==
    LET lvls == SetLevel(SetLevel(<<>>, "rinna", "INFO"), name, "INFO")
        logger == RinnaLogger(name, NoFields, name)
        fields == ParsedFields(field_args)
        lg == IF fields # NoFields THEN with_fields(<<logger>>, 1, fields)[2] ELSE logger
    IN log(recs, lvls, lg, Dispatch(Upper(level)).level, Dispatch(Upper(level)).note, message)

\* python3 log_python.py --level L --name N --message M [--field F]
LogPython ==
    /\ Len(records) < MaxRecords
    /\ \E level \in LevelArgs, message \in Messages, field_args \in FieldArgs :
            /\ records' = log_python(records, level, "org.rinna.Main", message, field_args)
            /\ log_run' = LogRun("log_python", 0, ParsedFields(field_args), level, message)
    /\ UNCHANGED <<loggers, levels, reportVars, configVars, swaggerVars, diagramVars>>

\* the log file is rotated away
ClearLog ==
    /\ records # <<>>
    /\ records' = <<>>
    /\ log_run' = NoLogRun
    /\ UNCHANGED <<loggers, levels, reportVars, configVars, swaggerVars, diagramVars>>

NextLogScript ==
    \/ LogPython
    \/ ClearLog

----------------------------------------------------------------------------
(* scripts/c4_diagrams.py: C4DiagramGenerator.  The output format is a       *)
(* string, kept as the sequence of its characters.                          *)

MaxDiagrams == 2

png == <<"p", "n", "g">>
svg == <<"s", "v", "g">>
pdf == <<"p", "d", "f">>

\* the values output_format is given
FormatArgs ==
    {png, <<"P", "N", "G">>, <<"S", "v", "g">>, pdf, <<"P", "D", "F">>, <<"j", "p", "g">>,
     <<"i", "n", "v", "a", "l", "i", "d">>, <<>>}

OutputDirs == {None, "out"}
DiagramKinds == {"context", "container"}

LowerChar(c) ==
    CASE c = "P" -> "p"
      [] c = "N" -> "n"
      [] c = "G" -> "g"
      [] c = "S" -> "s"
      [] c = "D" -> "d"
      [] c = "F" -> "f"
      [] OTHER -> c

\* str.lower
Lower(str) == [i \in 1..Len(str) |-> LowerChar(str[i])]

Generator(output_dir, output_format) ==
    [output_dir |-> output_dir, output_format |-> output_format]
NoGenerator == Generator(None, <<>>)

\* mutant of C4DiagramGenerator: the format is lower-cased and not checked
C4DiagramGeneratorUnchecked(output_dir, output_format) ==
    Generator(IF output_dir # None THEN output_dir ELSE "diagrams", Lower(output_format))

\* C4DiagramGenerator.__init__; without output_dir the directory is the
\* configured python.diagrams.output_dir
C4DiagramGenerator(output_dir, output_format) ==
    Generator(IF output_dir # None THEN output_dir ELSE "diagrams",
              IF Lower(output_format) \notin {png, svg, pdf} THEN png
              ELSE Lower(output_format))

\* output_dir / f"rinna_{kind}_diagram.{output_format}"
DiagramFile(g, kind) == <<g.output_dir, kind, g.output_format>>
NoDiagramFile == <<None, None, <<>>>>

DiagramRun(op, arg, result) == [op |-> op, arg |-> arg, result |-> result]
NoDiagramRun == DiagramRun(None, <<>>, NoDiagramFile)

DiagramIdle ==
    /\ diagrams_available = FALSE
    /\ generator = NoGenerator
    /\ diagram_files = {}
    /\ diagram_run = NoDiagramRun
    /\ uploads = <<>>

DiagramInit ==
    /\ diagrams_available \in BOOLEAN
    /\ generator = NoGenerator
    /\ diagram_files = {}
    /\ diagram_run = NoDiagramRun
    /\ uploads = <<>>

\* C4DiagramGenerator(output_dir, output_format)
NewGenerator ==
    /\ \E output_dir \in OutputDirs, output_format \in FormatArgs :
            /\ generator' = C4DiagramGenerator(output_dir, output_format)
            /\ diagram_run' = DiagramRun("C4DiagramGenerator", output_format, NoDiagramFile)
            /\ uploads' = <<>>
    /\ UNCHANGED <<diagrams_available, diagram_files, reportVars, configVars, swaggerVars,
                   loggerVars>>

\* generate_context_diagram / generate_container_diagram: the path of the
\* file written, or "" when the library is missing or the rendering fails
GenerateDiagram ==
    /\ generator # NoGenerator
    /\ Cardinality(diagram_files) < MaxDiagrams
    /\ \E kind \in DiagramKinds, rendered \in BOOLEAN :
            IF diagrams_available /\ rendered
            THEN /\ diagram_files' = diagram_files \cup {DiagramFile(generator, kind)}
                 /\ diagram_run' = DiagramRun("generate", <<kind>>,
                                              DiagramFile(generator, kind))
            ELSE /\ diagram_files' = diagram_files
                 /\ diagram_run' = DiagramRun("generate", <<kind>>, NoDiagramFile)
    /\ uploads' = <<>>
    /\ UNCHANGED <<diagrams_available, generator, reportVars, configVars, swaggerVars,
                   loggerVars>>

\* the five diagrams, in the order generate_all makes them
AllDiagrams == <<"context", "container", "component", "code", "clean_architecture">>

\* the sets of diagrams whose rendering raises during one generate_all call
FailingChoices ==
    {{}, {"context"}, {"container", "code"}, {"clean_architecture"},
     {"context", "container", "component", "code", "clean_architecture"}}

\* generate_<kind>_diagram: "" when the library is missing or the rendering
\* raised (every exception is caught and logged), the path otherwise
generate_diagram(g, kind, rendered) ==
    IF diagrams_available /\ rendered THEN DiagramFile(g, kind) ELSE NoDiagramFile

Generated(paths, uploaded) == [files |-> paths, uploads |-> uploaded]

\* mutant of AfterDiagram: what the generator returned is appended unchecked
AfterDiagramAppendAlways(acc, file, upload) ==
    Generated(Append(acc.files, file),
              IF upload /\ file # NoDiagramFile THEN Append(acc.uploads, file)
              ELSE acc.uploads)

\* `if file: files.append(file)` and `if upload and file:
\* self.upload_to_lucidchart(file, title)`; the upload returns a boolean
\* that is ignored and raises nothing
AfterDiagram(acc, file, upload) ==
    Generated(IF file # NoDiagramFile THEN Append(acc.files, file) ELSE acc.files,
              IF upload /\ file # NoDiagramFile THEN Append(acc.uploads, file)
              ELSE acc.uploads)

\* generate_all, from the diagram kinds still to make
RECURSIVE generate_all(_, _, _, _, _)
generate_all(g, kinds, upload, failing, acc) ==
    IF kinds = <<>> THEN acc
    ELSE generate_all(g, Tail(kinds), upload, failing,
                      AfterDiagram(acc,
                                   generate_diagram(g, Head(kinds), Head(kinds) \notin failing),
                                   upload))

\* C4DiagramGenerator.generate_all(upload)
GenerateAll ==
    /\ generator # NoGenerator
    /\ Cardinality(diagram_files) < MaxDiagrams
    /\ \E upload \in BOOLEAN, failing \in FailingChoices :
            LET r == generate_all(generator, AllDiagrams, upload, failing,
                                  Generated(<<>>, <<>>)) IN
            /\ diagram_files' = diagram_files \cup {r.files[i] : i \in 1..Len(r.files)}
            /\ diagram_run' = DiagramRun("generate_all", <<upload, failing>>, r.files)
            /\ uploads' = r.uploads
    /\ UNCHANGED <<diagrams_available, generator, reportVars, configVars, swaggerVars,
                   loggerVars>>

NextDiagrams ==
    \/ NewGenerator
    \/ GenerateDiagram
    \/ GenerateAll

----------------------------------------------------------------------------
(* Actions *)

Call(op, template_id, data, output_format, engine, filename, save) ==
    [op |-> op, template_id |-> template_id, data |-> data, format |-> output_format,
     engine |-> engine, filename |-> filename, save |-> save]

NoCall == Call(None, None, None, None, None, NoPath, FALSE)

Env == <<installed, default_engine, dir_exists>>

\* no call is in progress: the result of the previous one has been taken
Idle == call.op = None

ReportInit ==
    /\ installed \in InstalledChoices
    /\ default_engine \in DefaultEngines
    /\ dir_exists \in BOOLEAN
    /\ templates = <<>>
    /\ latest = <<>>
    /\ renderers = <<>>
    /\ constructed = <<>>
    /\ files = <<>>
    /\ report_seq = 0
    /\ call = NoCall
    /\ outcome = NoOutcome
    /\ render_calls = <<>>
    /\ http = NoResponse
    /\ saved = <<>>

\* the report service as imported by a process with everything installed
ReportIdle ==
    /\ ReportInit
    /\ installed = Libs \cup {ServiceModule}
    /\ default_engine = "weasyprint"
    /\ dir_exists

ToolsIdle ==
    /\ ConfigIdle
    /\ SwaggerIdle
    /\ LoggerIdle
    /\ DiagramIdle

Init == ReportInit /\ ToolsIdle

\* TemplateManager.add_template
AddTemplate ==
    /\ Idle
    /\ ServiceImportable
    /\ \E template \in AddableTemplates :
            /\ templates' = add_template(templates, template)
            /\ latest' = Put(latest, template.template_id, template)
            /\ call' = Call("add_template", template.template_id, template.title, None,
                            template.engine, NoPath, FALSE)
            /\ outcome' = Returned(None)
            /\ render_calls' = <<>>
            /\ http' = NoResponse
            /\ UNCHANGED <<Env, renderers, constructed, files, report_seq, saved, toolVars>>

\* TemplateManager(templates_dir): a new manager, loaded from the catalog
\* file of its directory; when the constructor raises there is no new manager
NewTemplateManager ==
    /\ Idle
    /\ \E file \in CatalogFiles :
            LET r == load_catalog(file) IN
            /\ call' = Call("TemplateManager", None, file, None, None, NoPath, FALSE)
            /\ outcome' = IF r.kind = "return" THEN Returned(None) ELSE Raised(r.exc)
            /\ templates' = IF r.kind = "return" THEN r.templates ELSE templates
            /\ latest' = IF r.kind = "return" THEN LatestOf(r.templates) ELSE latest
            /\ render_calls' = <<>>
            /\ http' = NoResponse
            /\ UNCHANGED <<Env, renderers, constructed, files, report_seq, saved, toolVars>>

\* TemplateManager.get_template
GetTemplate ==
    /\ Idle
    /\ ServiceImportable
    /\ \E template_id \in TemplateIds :
            /\ call' = Call("get_template", template_id, None, None, None, NoPath, FALSE)
            /\ outcome' = Returned(get_template(templates, template_id))
            /\ render_calls' = <<>>
            /\ http' = NoResponse
            /\ UNCHANGED <<Env, templates, latest, renderers, constructed, files, report_seq, saved, toolVars>>

\* TemplateManager.list_templates
ListTemplates ==
    /\ Idle
    /\ ServiceImportable
    /\ call' = Call("list_templates", None, None, None, None, NoPath, FALSE)
    /\ outcome' = Returned(list_templates(templates))
    /\ render_calls' = <<>>
    /\ http' = NoResponse
    /\ UNCHANGED <<Env, templates, latest, renderers, constructed, files, report_seq, saved, toolVars>>

\* ReportService.list_templates
ServiceListTemplates ==
    /\ Idle
    /\ ServiceImportable
    /\ call' = Call("service_list_templates", None, None, None, None, NoPath, FALSE)
    /\ outcome' = Returned([i \in 1..Len(list_templates(templates)) |->
                      [id |-> list_templates(templates)[i].template_id,
                       title |-> list_templates(templates)[i].title,
                       engine |-> list_templates(templates)[i].engine]])
    /\ render_calls' = <<>>
    /\ http' = NoResponse
    /\ UNCHANGED <<Env, templates, latest, renderers, constructed, files, report_seq, saved, toolVars>>

\* renderer.create_renderer, called directly
CreateRenderer ==
    /\ Idle
    /\ ServiceImportable
    /\ \E engine \in Engines \cup {"bogus"} :
            /\ call' = Call("create_renderer", None, None, None, engine, NoPath, FALSE)
            /\ outcome' = create_renderer(engine)
            /\ render_calls' = <<>>
            /\ http' = NoResponse
            /\ UNCHANGED <<Env, templates, latest, renderers, constructed, files, report_seq, saved, toolVars>>

\* ReportService.get_renderer
GetRenderer ==
    /\ Idle
    /\ ServiceImportable
    /\ \E engine \in GetRendererEngines :
            LET r == get_renderer(engine, renderers, constructed) IN
            /\ call' = Call("get_renderer", None, None, None, engine, NoPath, FALSE)
            /\ outcome' = r.out
            /\ renderers' = r.renderers
            /\ constructed' = r.constructed
            /\ render_calls' = <<>>
            /\ http' = NoResponse
            /\ UNCHANGED <<Env, templates, latest, files, report_seq, saved, toolVars>>

\* the state change of one generate_report call, the catalog aside
GenerateReportStep(r) ==
    /\ outcome' = r.out
    /\ renderers' = r.renderers
    /\ constructed' = r.constructed
    /\ files' = r.files
    /\ report_seq' = r.report_seq
    /\ render_calls' = r.render_calls
    /\ saved' = IF r.out.kind = "return" /\ r.out.value.file_path # NoPath
                THEN Put(saved, r.out.value.report_id, r.out.value.file_path)
                ELSE saved
    /\ UNCHANGED <<Env, toolVars>>

\* mutant of GenerateReport: the lookup removes the oldest template of the catalog
GenerateReportEvicting ==
    /\ Idle
    /\ ServiceImportable
    /\ report_seq < MaxReports
    /\ \E template_id \in TemplateIds, data \in DataValues, output_format \in RequestFormats,
           engine \in RequestEngines, filename \in RequestFilenames, save \in BOOLEAN,
           now \in Timestamps :
            \E ro \in RenderChoices(template_id, output_format, engine) :
                /\ call' = Call("generate_report", template_id, data, output_format, engine,
                                filename, save)
                /\ GenerateReportStep(generate_report(template_id, data, output_format, engine,
                                                      filename, save, now, ro))
                /\ http' = NoResponse
                /\ templates' = IF templates = <<>> THEN templates ELSE Tail(templates)
                /\ UNCHANGED latest

\* ReportService.generate_report
GenerateReport ==
    /\ Idle
    /\ ServiceImportable
    /\ report_seq < MaxReports
    /\ \E template_id \in TemplateIds, data \in DataValues, output_format \in RequestFormats,
           engine \in RequestEngines, filename \in RequestFilenames, save \in BOOLEAN,
           now \in Timestamps :
            \E ro \in RenderChoices(template_id, output_format, engine) :
                /\ call' = Call("generate_report", template_id, data, output_format, engine,
                                filename, save)
                /\ GenerateReportStep(generate_report(template_id, data, output_format, engine,
                                                      filename, save, now, ro))
                /\ http' = NoResponse
                /\ UNCHANGED <<templates, latest>>

\* ReportService.generate_metrics_report
GenerateMetricsReport ==
    /\ Idle
    /\ ServiceImportable
    /\ report_seq < MaxReports
    /\ \E title \in ReportTitles, metrics_data \in MetricsInputs, template_id \in TemplateIds,
           output_format \in RequestFormats, engine \in RequestEngines,
           filename \in RequestFilenames, now \in Timestamps :
            \E ro \in MetricsRenderChoices(metrics_data, template_id, output_format, engine) :
                /\ call' = Call("generate_metrics_report", template_id, metrics_data,
                                output_format, engine, filename, TRUE)
                /\ GenerateReportStep(generate_metrics_report(title, metrics_data, template_id,
                                                              output_format, engine, filename,
                                                              now, ro))
                /\ http' = NoResponse
                /\ UNCHANGED <<templates, latest>>

\* POST /api/v1/reports
ApiGenerateReport ==
    /\ Idle
    /\ IsDefaultService
    /\ ServiceImportable => report_seq < MaxReports
    /\ \E template_id \in TemplateIds, data \in DataValues, output_format \in RequestFormats,
           engine \in RequestEngines, filename \in ApiFilenames, now \in Timestamps :
            /\ call' = Call("POST /api/v1/reports", template_id, data, output_format, engine,
                            filename, TRUE)
            /\ IF ~ServiceImportable THEN
                   /\ http' = EndpointResponse(RaisedNoResult("ImportError"))
                   /\ outcome' = NoOutcome
                   /\ UNCHANGED <<Env, templates, latest, renderers, constructed, files,
                                  report_seq, render_calls, saved, toolVars>>
               ELSE
                   \E ro \in RenderChoices(template_id, output_format, engine) :
                       /\ GenerateReportStep(generate_report(template_id, data, output_format,
                                                             engine, filename, TRUE, now, ro))
                       /\ http' = EndpointResponse(outcome')
                       /\ UNCHANGED <<templates, latest>>

\* POST /api/v1/metrics/reports
ApiGenerateMetricsReport ==
    /\ Idle
    /\ IsDefaultService
    /\ ServiceImportable => report_seq < MaxReports
    /\ \E title \in ReportTitles, metrics_data \in MetricsInputs, template_id \in TemplateIds,
           output_format \in RequestFormats, engine \in RequestEngines,
           filename \in ApiFilenames, now \in Timestamps :
            /\ call' = Call("POST /api/v1/metrics/reports", template_id, metrics_data,
                            output_format, engine, filename, TRUE)
            /\ IF ~ServiceImportable THEN
                   /\ http' = EndpointResponse(RaisedNoResult("ImportError"))
                   /\ outcome' = NoOutcome
                   /\ UNCHANGED <<Env, templates, latest, renderers, constructed, files,
                                  report_seq, render_calls, saved, toolVars>>
               ELSE
                   \E ro \in MetricsRenderChoices(metrics_data, template_id, output_format,
                                                   engine) :
                       /\ GenerateReportStep(generate_metrics_report(title, metrics_data,
                                                                     template_id, output_format,
                                                                     engine, filename, now, ro))
                       /\ http' = EndpointResponse(outcome')
                       /\ UNCHANGED <<templates, latest>>

\* GET /api/v1/reports/{report_id}/download
ApiDownloadReport ==
    /\ Idle
    /\ IsDefaultService
    /\ \E report_id \in ReportIds : \E f \in DownloadChoices(report_id) :
            /\ call' = Call("GET /api/v1/reports/{report_id}/download", None, report_id, None,
                            None, NoPath, FALSE)
            /\ http' = download_report(report_id, f)
            /\ outcome' = NoOutcome
            /\ UNCHANGED <<Env, templates, latest, renderers, constructed, files,
                           report_seq, render_calls, saved, toolVars>>

\* the caller takes the result of the call; the service is ready for the next
Return ==
    /\ ~Idle
    /\ call' = NoCall
    /\ outcome' = NoOutcome
    /\ render_calls' = <<>>
    /\ http' = NoResponse
    /\ UNCHANGED <<Env, templates, latest, renderers, constructed, files, report_seq, saved, toolVars>>

Next ==
    \/ Return
    \/ AddTemplate
    \/ GetTemplate
    \/ ListTemplates
    \/ ServiceListTemplates
    \/ CreateRenderer
    \/ GetRenderer
    \/ GenerateReport
    \/ GenerateMetricsReport

\* the report library: TemplateManager, create_renderer and ReportService
Spec == Init /\ [][Next]_vars

\* the HTTP application: the endpoints, serving default_service
InitApi == Init /\ IsDefaultService

NextApi ==
    \/ Return
    \/ AddTemplate
    \/ ApiGenerateReport
    \/ ApiGenerateMetricsReport
    \/ ApiDownloadReport

SpecApi == InitApi /\ [][NextApi]_vars

----------------------------------------------------------------------------
(* The command-line tools and helper modules, each run on its own *)

InitLogger == ReportIdle /\ ConfigIdle /\ SwaggerIdle /\ LoggerInit /\ DiagramIdle

InitDiagrams == ReportIdle /\ ConfigIdle /\ SwaggerIdle /\ LoggerIdle /\ DiagramInit

\* c4_diagrams.C4DiagramGenerator
SpecDiagrams == InitDiagrams /\ [][NextDiagrams]_vars

\* rinna_logger, used as a library by one process
SpecLogger == InitLogger /\ [][NextLogger]_vars

\* log_python.py, run once per message
SpecLogScript == InitLogger /\ [][NextLogScript]_vars

InitCatalog == ReportIdle /\ ToolsIdle

NextCatalog ==
    \/ Return
    \/ NewTemplateManager
    \/ AddTemplate
    \/ GetTemplate
    \/ ListTemplates

\* TemplateManager on its own, constructed over catalog files
SpecCatalog == InitCatalog /\ [][NextCatalog]_vars

InitConfig == ReportIdle /\ ConfigInit /\ SwaggerIdle /\ LoggerIdle /\ DiagramIdle

\* rinna_config: the singleton `config`
SpecConfig == InitConfig /\ [][NextConfig]_vars

\* rinna_config: the singleton `config`, all its getters, over a
\* configuration file that changes
SpecConfigFiles == InitConfig /\ [][NextConfigFiles]_vars

InitSwagger == ReportIdle /\ ConfigIdle /\ SwaggerInit /\ LoggerIdle /\ DiagramIdle

\* sync-swagger.py over a pair of files
SpecSwagger == InitSwagger /\ [][NextSwagger]_vars

----------------------------------------------------------------------------
(* Properties *)

GenOps == {"generate_report", "generate_metrics_report"}
ApiOps == {"POST /api/v1/reports", "POST /api/v1/metrics/reports"}

\* the last call reached renderer.render: the template existed and
\* get_renderer returned a renderer
Rendered == call.op \in GenOps /\ Len(render_calls) = 1

\* the engine generate_report asks get_renderer for
ResolvedEngine ==
    IF call.engine = None THEN get_template(templates, call.template_id).engine
    ELSE call.engine

C1_WitnessWrite ==
    /\ Rendered
    /\ render_calls[1].outcome.kind = "return"
    /\ call.save /\ ~dir_exists
    /\ outcome.kind = "return"
    /\ outcome.value.status = "error"

\* the case of C2: a known engine that cannot be constructed, other than the
\* default engine, which can
FallbackCase ==
    /\ call.op = "get_renderer"
    /\ call.engine \in Engines
    /\ create_renderer(call.engine).kind = "raise"
    /\ call.engine # default_engine
    /\ create_renderer(default_engine).kind = "return"

\* C2: get_renderer for an engine that cannot be constructed and is not the
\* default, while the default can, returns a renderer of the default engine
\* instead of raising.
C2_FallbackToDefault ==
    FallbackCase => outcome.kind = "return" /\ outcome.value.cls = default_engine

\* C2 witness: the fallback with the default renderer already in the cache
C2_Witness ==
    /\ FallbackCase
    /\ default_engine \in DOMAIN renderers
    /\ outcome.kind = "return"
    /\ outcome.value = renderers[default_engine]

\* C2, second case: the fallback built the default renderer
C2_WitnessUncached ==
    /\ FallbackCase
    /\ default_engine \notin DOMAIN renderers
    /\ outcome.kind = "return"
    /\ outcome.value.cls = default_engine

\* C3: every result record generate_report returns carries the template_id
\* of the request, and that identifier was in the catalog when the call was
\* made.
C3_ResultNamesCatalogTemplate ==
    [][(call'.op \in GenOps /\ outcome'.kind = "return")
       => /\ outcome'.value.template_id = call'.template_id
          /\ IndexOf(templates, call'.template_id) # 0]_vars

\* C3 witness: an error result returned while the catalog holds two templates
C3_Witness ==
    /\ call.op = "generate_report"
    /\ outcome.kind = "return"
    /\ outcome.value.status = "error"
    /\ outcome.value.template_id = "t2"
    /\ Len(templates) = 2

\* C4 (as claimed): a report request naming a template that is not in the
\* catalog is answered with a 4xx status.
C4_MissingTemplateIs4xx ==
    (call.op \in ApiOps /\ ServiceImportable /\ IndexOf(templates, call.template_id) = 0)
    => http.status \in 400..499

\* C5 (as claimed): when the renderer of the requested engine cannot be
\* constructed, the request is served by the default engine's renderer, or,
\* with no fallback available, answered with 501.
C5_FallbackOr501 ==
    (/\ call.op \in ApiOps
     /\ ServiceImportable
     /\ IndexOf(templates, call.template_id) # 0
     /\ call.format \in Formats
     /\ ResolvedEngine \in Engines
     /\ create_renderer(ResolvedEngine).kind = "raise")
    => IF CanFallBack(ResolvedEngine) /\ create_renderer(default_engine).kind = "return"
       THEN Len(render_calls) = 1 /\ render_calls[1].renderer.cls = default_engine
       ELSE http.status = 501

InstancesOf(cls) == {i \in 1..Len(constructed) : constructed[i] = cls}

\* C6 (as claimed): the service builds at most one renderer instance per
\* rendering engine.
C6_OneInstancePerEngine ==
    \A cls \in Engines : Cardinality(InstancesOf(cls)) <= 1

\* C7: the catalog changes only through add_template; every other operation
\* leaves it as it was, whether it returns or raises.
C7_CatalogChangesOnlyByAdd ==
    [][templates' # templates => call'.op = "add_template"]_vars

\* C7 witness: generate_metrics_report raised with a non-empty catalog
C7_Witness ==
    /\ call.op = "generate_metrics_report"
    /\ outcome.kind = "raise"
    /\ Len(templates) = 2

\* C8 (as claimed): create_renderer returns a renderer of the requested
\* engine when the engine's library is importable and raises ValueError when
\* it is not.
C8_CreateFollowsLibrary ==
    (call.op = "create_renderer" /\ call.engine \in {"weasyprint", "reportlab", "xhtml2pdf"})
    => IF call.engine \in installed
       THEN outcome.kind = "return" /\ outcome.value = call.engine
       ELSE outcome.kind = "raise" /\ outcome.exc = "ValueError"

\* C9: list_templates returns exactly one entry per identifier added, each
\* the template most recently added under it, and get_template returns the
\* template most recently added under the identifier (None if there is none).
C9_CatalogHoldsLatestPerId ==
    /\ call.op = "list_templates" =>
          /\ outcome.kind = "return"
          /\ Len(outcome.value) = Cardinality(DOMAIN latest)
          /\ \A id \in DOMAIN latest :
                \E i \in 1..Len(outcome.value) : outcome.value[i] = latest[id]
    /\ call.op = "service_list_templates" =>
          /\ Len(outcome.value) = Cardinality(DOMAIN latest)
          /\ \A id \in DOMAIN latest :
                \E i \in 1..Len(outcome.value) :
                    /\ outcome.value[i].id = id
                    /\ outcome.value[i].title = latest[id].title
    /\ call.op = "get_template" =>
          outcome.value = IF call.template_id \in DOMAIN latest
                          THEN latest[call.template_id] ELSE NoTemplate

\* C9 witness: the listing of a catalog of two templates
C9_Witness ==
    /\ call.op = "list_templates"
    /\ outcome.value = <<Template("t1", "B", "reportlab"), Template("t2", "A", "reportlab")>>

\* what C10 promises of a call whose render returned bytes
SuccessEchoesRequest ==
    /\ outcome.kind = "return"
    /\ outcome.value.status = "success"
    /\ outcome.value.template_id = call.template_id
    /\ outcome.value.format = call.format
    /\ {"report_id", "generation_time_seconds"} \subseteq outcome.value.keys
    /\ Len(render_calls) = 1
    /\ render_calls[1].template_id = call.template_id
    /\ render_calls[1].data = call.data
    /\ render_calls[1].format = call.format

OtherEntries(metrics_data) ==
    SelectSeq(metrics_data, LAMBDA e : e.name # "summary")

\* C11: the "sections" list generate_metrics_report hands to the renderer has
\* the summary section first when the metrics have a "summary" key, followed
\* by exactly one section per other top-level key, in the order of the keys;
\* the number of sections is the number of top-level keys.
C11_OneSectionPerKey ==
    (call.op = "generate_metrics_report" /\ Len(render_calls) = 1)
    => LET sections == render_calls[1].data.sections
           others == OtherEntries(call.data)
           first == IF HasSummary(call.data) THEN 1 ELSE 0
       IN /\ Len(sections) = Len(call.data)
          /\ Len(sections) = first + Len(others)
          /\ HasSummary(call.data) => sections[1].title = "Summary"
          /\ \A j \in 1..Len(others) :
                sections[first + j].title = SectionTitle(others[j].name)

\* C11 witness: metrics whose summary is not the first key reached the renderer
C11_Witness ==
    /\ call.op = "generate_metrics_report"
    /\ Len(render_calls) = 1
    /\ call.data = <<Entry("workflow_metrics", "list"), Entry("summary", "dict")>>
    /\ render_calls[1].data.sections = <<[title |-> "Summary"], [title |-> "Workflow Metrics"]>>

\* C16 (as claimed): a download request for a report that was generated and
\* saved successfully returns the file generated for that report.
C16_DownloadReturnsGeneratedFile ==
    (/\ call.op = "GET /api/v1/reports/{report_id}/download"
     /\ call.data \in DOMAIN saved)
    => /\ http.status = 200
       /\ http.filename = saved[call.data]

\* C17: a success result of generate_report has a file_path exactly when save
\* was true; the file at that path then holds exactly the bytes render
\* returned and size_bytes is their length; with save false the files on
\* disk are unchanged; an error result has no file_path.
C17_FilePathIffSaved ==
    [][(call'.op \in GenOps /\ outcome'.kind = "return")
       => IF outcome'.value.status = "success"
          THEN /\ (outcome'.value.file_path # NoPath) <=> call'.save
               /\ outcome'.value.size_bytes = Len(render_calls'[1].outcome.value)
               /\ call'.save =>
                     /\ outcome'.value.file_path \in DOMAIN files'
                     /\ files'[outcome'.value.file_path] = render_calls'[1].outcome.value
               /\ ~call'.save => files' = files
          ELSE /\ outcome'.value.file_path = NoPath
               /\ "file_path" \notin outcome'.value.keys]_vars

\* C17 witness: a report saved under the default file name, holding the two
\* bytes render returned
C17_Witness ==
    /\ call.op = "generate_report"
    /\ call.save
    /\ outcome.kind = "return"
    /\ outcome.value.status = "success"
    /\ outcome.value.size_bytes = 2
    /\ outcome.value.file_path \in DOMAIN files
    /\ files[outcome.value.file_path] = <<1, 2>>

\* the identifiers of the well-formed entries of a catalog file
WellFormedIds(file) ==
    {file.entries[i].id : i \in {j \in 1..Len(file.entries) :
                                    /\ file.entries[j].kind = "object"
                                    /\ file.entries[j].id # None
                                    /\ file.entries[j].path = "string"}}

\* C12 (as claimed): constructing a TemplateManager never fails, whatever the
\* catalog file holds; entries without an identifier are skipped and every
\* well-formed entry is loaded.
C12_InvalidCatalogNeverFatal ==
    (call.op = "TemplateManager")
    => /\ outcome.kind = "return"
       /\ \A id \in WellFormedIds(call.data) : IndexOf(templates, id) # 0

\* the value the YAML file gives a key, None when it does not define it
FileDefines(key) == config_file.kind = "yaml" /\ key \in DOMAIN config_file.doc

\* C13 (as claimed): get returns the environment variable when it is set,
\* otherwise the value of the YAML file whenever the file defines the key,
\* otherwise the coded default, otherwise the caller's default.
C13_GetFollowsPriority ==
    (got.kind # None)
    => /\ got.kind = "return"
       /\ got.value =
             IF env_var_name(got.key) \in DOMAIN environ
             THEN environ[env_var_name(got.key)]
             ELSE IF FileDefines(got.key) THEN config_file.doc[got.key]
             ELSE IF DefaultOf(got.key) # None THEN DefaultOf(got.key)
             ELSE got.default

\* a document as the set of its key-value pairs
Members(doc) == {doc[i] : i \in 1..Len(doc)}

\* the YAML file converted to JSON and back has the keys and values it had
YamlRoundTrips ==
    LET json == convert_yaml_to_json(yaml_file, NoFile)
        yaml == convert_json_to_yaml(json.file, NoFile)
    IN /\ json.exit = 0
       /\ yaml.exit = 0
       /\ Members(yaml_safe_load(yaml.file).doc) = Members(yaml_safe_load(yaml_file).doc)

\* the JSON file converted to YAML and back has the keys and values it had
JsonRoundTrips ==
    LET yaml == convert_json_to_yaml(json_file, NoFile)
        json == convert_yaml_to_json(yaml.file, NoFile)
    IN /\ yaml.exit = 0
       /\ json.exit = 0
       /\ Members(json_load(json.file).doc) = Members(json_load(json_file).doc)

JsonRepresentable(doc) ==
    /\ JsonSerializable(doc)
    /\ \A i \in 1..Len(doc) : doc[i].key.t = "str"

C15_InvalidInputAborts ==
    [][(run'.op = "main")
       => /\ (/\ ~validate_swagger_yaml(yaml_file)
               /\ (run'.validate \/ run'.direction \in {"yaml-to-json", "both"}))
              => (run'.exit # 0 /\ json_file' = json_file /\ yaml_file' = yaml_file)
          /\ (/\ ~run'.validate
               /\ run'.direction = "json-to-yaml"
               /\ ~json_load(json_file).ok)
              => (run'.exit # 0 /\ yaml_file' = yaml_file)
          /\ ~validate_swagger_yaml(yaml_file') => run'.exit # 0]_vars

\* C18: with_field and with_fields leave every existing logger as it was and
\* add a logger whose fields are those of the logger they were called on,
\* updated with the given ones, and which writes through the same underlying
\* logger.
C18_WithFieldsLeavesOriginal ==
    [][(log_run'.op \in {"with_field", "with_fields"})
       => LET self == loggers[log_run'.self]
              new == loggers'[Len(loggers')]
              given == log_run'.given
          IN /\ Len(loggers') = Len(loggers) + 1
             /\ \A j \in 1..Len(loggers) : loggers'[j] = loggers[j]
             /\ new.logger = self.logger
             /\ DOMAIN new.fields = DOMAIN self.fields \cup DOMAIN given
             /\ \A k \in DOMAIN new.fields :
                   new.fields[k] = IF k \in DOMAIN given THEN given[k] ELSE self.fields[k]]_vars

\* C18 witness: with_fields on a logger that has a field replaced its value
\* in the new logger only
C18_Witness ==
    /\ log_run.op = "with_fields"
    /\ log_run.self = 2
    /\ Len(loggers) = 3
    /\ loggers[2].fields = [k \in {"request_id"} |-> "a"]
    /\ loggers[3].fields = [k \in {"request_id"} |-> "b"]

\* C19 (as claimed): every run of the script adds one record with the given
\* message, at the requested level when it is one of TRACE, DEBUG, INFO,
\* WARN, WARNING, ERROR in any case, and at INFO with a note otherwise.
C19_EveryMessageRecorded ==
    [][(log_run'.op = "log_python")
       => /\ Len(records') = Len(records) + 1
          /\ records'[Len(records')].message = log_run'.message
          /\ records'[Len(records')].level = Dispatch(Upper(log_run'.level)).level]_vars

\* C20: a generator's output_format is png, svg or pdf: the lower-cased
\* format it was constructed with when that is one of the three, png
\* otherwise; every diagram file written has one of the three formats.
C20_OutputFormatSupported ==
    /\ generator # NoGenerator => generator.output_format \in {png, svg, pdf}
    /\ diagram_run.op = "C4DiagramGenerator" =>
          generator.output_format =
              IF Lower(diagram_run.arg) \in {png, svg, pdf} THEN Lower(diagram_run.arg)
              ELSE png
    /\ \A f \in diagram_files : f[3] \in {png, svg, pdf}

\* C20 witness: a generator constructed with an unsupported format, after
\* a png and a pdf diagram were written by generators before it
C20_Witness ==
    /\ generator.output_format = png
    /\ <<"out", "context", png>> \in diagram_files
    /\ <<"out", "container", pdf>> \in diagram_files
    /\ diagram_run.op = "C4DiagramGenerator"
    /\ diagram_run.arg = <<"i", "n", "v", "a", "l", "i", "d">>

\* C22 (as claimed): when the service returns a result with status "error",
\* the two report endpoints answer with HTTP status 400.
C22_ErrorResultIs400 ==
    (/\ call.op \in ApiOps
     /\ outcome.kind = "return"
     /\ outcome.value.status = "error")
    => http.status = 400

\* C23: generate_report for a template identifier that is not in the catalog
\* raises ValueError and leaves the renderer cache, the renderer instances
\* built, the files on disk and the report counter as they were; render is
\* not invoked.
C23_MissingTemplateRaisesFirst ==
    [][(call'.op = "generate_report" /\ IndexOf(templates, call'.template_id) = 0)
       => /\ outcome'.kind = "raise"
          /\ outcome'.exc = "ValueError"
          /\ renderers' = renderers
          /\ constructed' = constructed
          /\ render_calls' = <<>>
          /\ files' = files
          /\ report_seq' = report_seq]_vars

\* C23 witness: the call raised for t2 with an engine the cache does not
\* hold, while the catalog holds t1 and a renderer has been built before
C23_Witness ==
    /\ call.op = "generate_report"
    /\ call.template_id = "t2"
    /\ IndexOf(templates, "t2") = 0
    /\ IndexOf(templates, "t1") # 0
    /\ call.engine = "xhtml2pdf"
    /\ "xhtml2pdf" \notin DOMAIN renderers
    /\ renderers # <<>>
    /\ outcome.kind = "raise"
    /\ outcome.exc = "ValueError"

C24_WitnessOverride ==
    /\ Rendered
    /\ call.engine = "weasyprint"
    /\ get_template(templates, call.template_id).engine = "reportlab"
    /\ default_engine = "reportlab"
    /\ render_calls[1].renderer.cls = "weasyprint"

\* C25 (as claimed): the "engine" entry of a result names the engine of the
\* renderer that was invoked.
C25_EngineFieldNamesRenderer ==
    (Rendered /\ outcome.kind = "return")
    => outcome.value.engine = render_calls[1].renderer.cls

\* C26: a get_renderer call that raises leaves the cache and the instances
\* built as they were; every cache entry is an instance that was built; an
\* engine get_renderer raises for is one it raises for after any step.
C26_FailureLeavesCache ==
    [][/\ (call'.op = "get_renderer" /\ outcome'.kind = "raise")
          => renderers' = renderers /\ constructed' = constructed
       /\ \A engine \in DOMAIN renderers' :
             /\ engine \in Engines
             /\ renderers'[engine].id \in 1..Len(constructed')
             /\ constructed'[renderers'[engine].id] = renderers'[engine].cls
       /\ \A engine \in GetRendererEngines :
             get_renderer(engine, renderers, constructed).out.kind = "raise"
             => get_renderer(engine, renderers', constructed').out.kind = "raise"]_vars

\* C26 witness: get_renderer raised for a known engine with a non-empty cache
C26_Witness ==
    /\ call.op = "get_renderer"
    /\ call.engine = "xhtml2pdf"
    /\ outcome.kind = "raise"
    /\ outcome.exc = "ValueError"
    /\ renderers # <<>>
    /\ "xhtml2pdf" \notin DOMAIN renderers

\* C27 (as claimed): two reports saved under generated file names are saved
\* to different files.
C27_GeneratedNamesDiffer ==
    \A r1, r2 \in DOMAIN saved :
        (r1 # r2 /\ saved[r1][1] # "custom" /\ saved[r2][1] # "custom")
        => saved[r1] # saved[r2]

\* the paths generate_all is to return for a generator: those of the diagrams
\* that do not fail, in the fixed order
RECURSIVE ExpectedPaths(_, _, _)
ExpectedPaths(g, kinds, failing) ==
    IF kinds = <<>> THEN <<>>
    ELSE (IF diagrams_available /\ Head(kinds) \notin failing
          THEN <<<<g.output_dir, Head(kinds), g.output_format>>>> ELSE <<>>)
         \o ExpectedPaths(g, Tail(kinds), failing)

\* C21: generate_all returns the paths of the diagrams that were generated,
\* in the order context, container, component, code, clean architecture: all
\* five when none fails, none without the diagram library, and the later
\* ones after a failure; the uploads attempted are those paths when upload
\* is requested and none otherwise.
C21_GenerateAllInOrder ==
    diagram_run.op = "generate_all" =>
        /\ diagram_run.result =
              ExpectedPaths(generator,
                            <<"context", "container", "component", "code",
                              "clean_architecture">>,
                            diagram_run.arg[2])
        /\ uploads = IF diagram_run.arg[1] THEN diagram_run.result ELSE <<>>
        /\ \A i \in 1..Len(diagram_run.result) : diagram_run.result[i] \in diagram_files
        /\ ~diagrams_available => diagram_run.result = <<>>

\* C21 witness: the container and code diagrams failed, the other three
\* were generated and uploaded
C21_Witness ==
    /\ diagram_run.op = "generate_all"
    /\ diagram_run.arg = <<TRUE, {"container", "code"}>>
    /\ Len(diagram_run.result) = 3
    /\ diagram_run.result[1][2] = "context"
    /\ diagram_run.result[2][2] = "component"
    /\ diagram_run.result[3][2] = "clean_architecture"
    /\ uploads = diagram_run.result

\* C21, second case: all five diagrams generated, no upload requested
C21_WitnessAll ==
    /\ diagram_run.op = "generate_all"
    /\ Len(diagram_run.result) = 5
    /\ uploads = <<>>

\* what the file and the coded defaults provide for a path of the
\* configuration
Provided(path, value) ==
    \/ config_file.kind = "yaml" /\ path \in DOMAIN config_file.doc
                                 /\ config_file.doc[path] = value
    \/ DefaultOf(path) = value
    \/ value = Dict

\* C28 (as claimed): a getter runs _load_config only when no load has been
\* made before; a reload leaves no value in the configuration that the
\* current file and the defaults do not provide.
C28_LoadedOnceUntilReload ==
    [][/\ got'.getter # None => loads' = (IF loads = 0 THEN 1 ELSE loads)
       /\ (got'.getter = None /\ loads' # loads)
          => \A path \in DOMAIN config' : Provided(path, config'[path])]_vars

====
